---- MODULE Spec2Model ----
(***************************************************************************)
(* The three analysis pages of the finagent front end (stock analysis,     *)
(* portfolio recommendation, market sentiment) as one state machine.       *)
(*                                                                         *)
(* A behaviour is the life of ONE mounted page: the navigation links of    *)
(* layout.tsx are plain <a href> elements, so leaving a page reloads the   *)
(* document and discards the component together with its requests.        *)
(*                                                                         *)
(* A JavaScript string is a sequence of pieces.  User input is a sequence  *)
(* of one-character pieces; the message literals of the source are cut     *)
(* into pieces at the boundaries of the substrings that the code searches  *)
(* for with String.prototype.includes, so that includes() is computed as   *)
(* a real substring search.  The empty string '' is << >>.                 *)
(***************************************************************************)
EXTENDS Integers, Sequences, FiniteSets, TLC

(***************************************************************************)
(* Bounds of the model.                                                    *)
(***************************************************************************)
\* longest text a user types or pastes into a symbol box in one input event
MaxSymLen == 3
\* longest text typed into the age box
MaxAgeLen == 4
\* longest text typed into the income box
MaxIncomeLen == 1
\* longest text typed into the investment period box
MaxPeriodLen == 2
\* most handler invocations that can be suspended at an await at one time
MaxCalls == 2

\* the characters the modelled user types into a symbol box: a digit and a
\* lower-case letter, U+00DF, whose upper-case form is the two letters "SS"
\* (the quick-pick buttons supply symbols of ordinary letters)
SymbolChars == {"7", "ß"}
\* the characters typed into the three number boxes: "11e1" is the shortest
\* text of the age box in exponent notation whose value, 110, is in range
AgeChars == {"1", "e"}
IncomeChars == {"-", "0", "1"}
PeriodChars == {"5"}

(***************************************************************************)
(* Strings.                                                                *)
(***************************************************************************)
LowerLetters == <<"a","b","c","d","e","f","g","h","i","j","k","l","m",
                  "n","o","p","q","r","s","t","u","v","w","x","y","z">>
UpperLetters == <<"A","B","C","D","E","F","G","H","I","J","K","L","M",
                  "N","O","P","Q","R","S","T","U","V","W","X","Y","Z">>
Range(f) == {f[i] : i \in DOMAIN f}
AZ == Range(UpperLetters)
az == Range(LowerLetters)
WhiteSpace == {" "}

\* every string over chars of length at most n
StringsUpTo(chars, n) == UNION {[1..k -> chars] : k \in 0..n}

\* String.prototype.toUpperCase on one character: the special casing of
\* U+00DF gives the two letters "SS"
UpperOfChar(c) ==
  IF c \in az THEN <<UpperLetters[CHOOSE i \in 1..26 : LowerLetters[i] = c]>>
  ELSE IF c = "ß" THEN <<"S", "S">>
  ELSE <<c>>

RECURSIVE ToUpperCase(_)
ToUpperCase(s) ==
  IF s = << >> THEN << >> ELSE UpperOfChar(Head(s)) \o ToUpperCase(Tail(s))

\* String.prototype.trim
RECURSIVE TrimStart(_)
TrimStart(s) ==
  IF s # << >> /\ Head(s) \in WhiteSpace THEN TrimStart(Tail(s)) ELSE s
RECURSIVE TrimEnd(_)
TrimEnd(s) ==
  IF s # << >> /\ s[Len(s)] \in WhiteSpace
  THEN TrimEnd(SubSeq(s, 1, Len(s) - 1)) ELSE s
Trim(s) == TrimEnd(TrimStart(s))

\* String.prototype.includes
Includes(s, needle) ==
  \E i \in 1..(Len(s) + 1) :
     /\ i + Len(needle) - 1 <= Len(s)
     /\ SubSeq(s, i, i + Len(needle) - 1) = needle

\* variant: the regular expression without its length limit, /^[A-Z]+$/
SymbolRegex_NoLength(s) == Len(s) >= 1 /\ \A i \in 1..Len(s) : s[i] \in AZ

\* /^[A-Z]{1,5}$/.test(s)
SymbolRegex(s) == Len(s) \in 1..5 /\ \A i \in 1..Len(s) : s[i] \in AZ

\* the pattern attribute "[A-Za-z]+", which the browser matches against the
\* whole value
PatternLetters(s) == Len(s) >= 1 /\ \A i \in 1..Len(s) : s[i] \in AZ \cup az

(***************************************************************************)
(* Numbers in text.                                                        *)
(***************************************************************************)
Digits == <<"0","1","2","3","4","5","6","7","8","9">>
IsDigit(c) == c \in Range(Digits)
DigitVal(c) == (CHOOSE i \in 1..10 : Digits[i] = c) - 1

\* the value of a run of decimal digits
RECURSIVE DigitsVal(_)
DigitsVal(s) ==
  IF s = << >> THEN 0
  ELSE 10 * DigitsVal(SubSeq(s, 1, Len(s) - 1)) + DigitVal(s[Len(s)])

\* length of the longest prefix of s made of digits
RECURSIVE DigitPrefix(_)
DigitPrefix(s) ==
  IF s # << >> /\ IsDigit(Head(s)) THEN 1 + DigitPrefix(Tail(s)) ELSE 0

\* Numbers of 10^9 and more are all held as 10^9: the pages compare a number
\* only with the small limits of the controls, and 10^9 is a multiple of
\* every step.
Huge == 1000 * 1000 * 1000
Times(a, b) ==
  IF a = 0 \/ b = 0 THEN 0 ELSE IF a > Huge \div b THEN Huge ELSE a * b

RECURSIVE Pow10(_)
Pow10(n) == IF n = 0 THEN 1 ELSE IF n >= 9 THEN Huge ELSE 10 * Pow10(n - 1)

\* A number or NaN: << >> is NaN, <<n>> is the number n.
NaN == << >>
Num(n) == <<n>>

\* parseInt(s) in radix 10: blanks, an optional sign, then the longest run
\* of digits; whatever follows the digits is ignored
ParseInt(str) ==
  LET s == TrimStart(str)
      neg == s # << >> /\ Head(s) = "-"
      t == IF s # << >> /\ Head(s) \in {"-", "+"} THEN Tail(s) ELSE s
      n == DigitPrefix(t)
  IN IF n = 0 THEN NaN
     ELSE Num((IF neg THEN -1 ELSE 1) * DigitsVal(SubSeq(t, 1, n)))

\* The decimal literal that starts s: digits, then an exponent part when an
\* "e" followed by digits comes next.  [len, val]: the number of characters
\* read and their value; len = 0 when s starts with no digit.  The typed
\* alphabets hold no "." and no exponent sign, so every value is an integer.
Literal(s) ==
  LET n == DigitPrefix(s)
      rest == SubSeq(s, n + 1, Len(s))
      hasExp == /\ n > 0
                /\ Len(rest) >= 2
                /\ rest[1] \in {"e", "E"}
                /\ IsDigit(rest[2])
      m == IF hasExp THEN DigitPrefix(Tail(rest)) ELSE 0
  IN IF n = 0 THEN [len |-> 0, val |-> 0]
     ELSE IF hasExp
     THEN [len |-> n + 1 + m,
           val |-> Times(DigitsVal(SubSeq(s, 1, n)),
                         Pow10(DigitsVal(SubSeq(rest, 2, m + 1))))]
     ELSE [len |-> n, val |-> DigitsVal(SubSeq(s, 1, n))]

\* parseFloat(s): blanks, an optional sign, then the longest decimal literal
ParseFloat(str) ==
  LET s == TrimStart(str)
      neg == s # << >> /\ Head(s) = "-"
      t == IF s # << >> /\ Head(s) \in {"-", "+"} THEN Tail(s) ELSE s
      lit == Literal(t)
  IN IF lit.len = 0 THEN NaN
     ELSE Num((IF neg THEN -1 ELSE 1) * lit.val)

\* The number a type="number" control holds for the text s, NaN when s is
\* no valid floating-point number: an optional "-", then a literal that
\* spans the whole rest of the text.
NumberValue(s) ==
  LET neg == s # << >> /\ Head(s) = "-"
      t == IF neg THEN Tail(s) ELSE s
      lit == Literal(t)
  IN IF lit.len = 0 \/ lit.len # Len(t) THEN NaN
     ELSE Num((IF neg THEN -1 ELSE 1) * lit.val)

\* value sanitization of a type="number" control: text that is no valid
\* number leaves the control's value empty
SanitizeNumber(s) == IF NumberValue(s) = NaN THEN << >> ELSE s

(***************************************************************************)
(* JSON values and thrown errors.                                          *)
(***************************************************************************)
\* the detail member of a response body: absent, a string, or the non-empty
\* array of objects that the backend framework sends with a 422 status;
\* s is what String(detail) gives
Undefined == [t |-> "undefined", s |-> << >>]
Str(s) == [t |-> "string", s |-> s]
ArrayDetail == [t |-> "array", s |-> <<"[object Object]">>]

\* what response.json() settles with: a rejection (the body is no JSON),
\* null, or an object with its detail member
NotJson == [t |-> "invalid", detail |-> Undefined]
Null == [t |-> "null", detail |-> Undefined]
Obj(d) == [t |-> "object", detail |-> d]

\* x || fallback takes the fallback when x is undefined or ''
Truthy(d) == d.t = "array" \/ (d.t = "string" /\ d.s # << >>)

\* the substrings the pages search for
FailedToFetch == <<"Failed to fetch">>
NoDataFound == <<"No data found for symbol">>
BackendServerLower == <<"backend server">>

\* the message literals of the source
MsgEnterSymbol == <<"Please enter a stock symbol">>
MsgInvalidSymbol == <<"Please enter a valid stock symbol (1-5 letters)">>
MsgNotRunning ==
  <<"Backend server", " is not running. Please start the server and try again.">>
MsgUnable ==
  <<"Unable to connect to the ", "backend server",
    ". Please ensure it is running on port 8001.">>
MsgNoData(cleanSymbol) ==
  NoDataFound \o <<" \"">> \o cleanSymbol
    \o <<"\". Please verify the stock symbol is correct.">>
MsgStockFailed == <<"Failed to analyze stock">>
MsgStockGeneric == <<"Failed to analyze stock", ". Please try again.">>
MsgSentimentFailed == <<"Failed to analyze sentiment">>
MsgSentimentGeneric == <<"Failed to analyze sentiment", ". Please try again.">>
MsgPortfolioFailed == <<"Failed to get portfolio recommendation">>
MsgPortfolioGeneric ==
  <<"Failed to get portfolio recommendation", ". Please try again.">>

\* new Error(message); every value the handlers can catch is an Error
Error(m) == [isError |-> TRUE, message |-> m]

\* The rejection of fetch() when no response arrives is a TypeError whose
\* message the browser chooses: Chromium's and Firefox's are modelled.
FetchRejections ==
  {Error(FailedToFetch),
   Error(<<"NetworkError when attempting to fetch resource.">>)}
\* response.json() on a body that is no JSON
SyntaxError == Error(<<"Unexpected token '<' is not valid JSON">>)
\* reading .detail of null
TypeErrorNull == Error(<<"Cannot read properties of null (reading 'detail')">>)

\* the detail strings the backend is modelled to send
DetailStrings ==
  {<< >>,
   <<"Rate limit exceeded">>,
   NoDataFound \o <<" XYZ">>,
   <<"Upstream error: ">> \o FailedToFetch}
Details == {Undefined, ArrayDetail} \cup {Str(s) : s \in DetailStrings}

\* bodies of a response whose status is not 2xx
ErrorBodies == {NotJson, Null} \cup {Obj(d) : d \in Details}
\* bodies of a 2xx response: an object of the documented shape (which has no
\* detail member), null, or no JSON at all
OkBodies == {NotJson, Null, Obj(Undefined)}

(***************************************************************************)
(* Requests.                                                               *)
(***************************************************************************)
NoReq ==
  [method |-> "none", path |-> "", symbol |-> << >>, period |-> "",
   days |-> NaN, age |-> NaN, income |-> NaN, risk_appetite |-> << >>,
   investment_period |-> NaN]
HealthReq == [NoReq EXCEPT !.method = "GET", !.path = "/health"]
StockReq(cleanSymbol, per) ==
  [NoReq EXCEPT !.method = "POST", !.path = "/analyze/stock",
                !.symbol = cleanSymbol, !.period = per]
SentimentReq(sym, d) ==
  [NoReq EXCEPT !.method = "POST", !.path = "/analyze/sentiment",
                !.symbol = ToUpperCase(sym), !.days = ParseInt(d)]
PortfolioReq(fd) ==
  [NoReq EXCEPT !.method = "POST", !.path = "/portfolio/recommend",
                !.age = ParseInt(fd.age),
                !.income = ParseFloat(fd.income),
                !.risk_appetite = fd.risk_appetite,
                !.investment_period = ParseInt(fd.investment_period)]

(***************************************************************************)
(* The forms.                                                              *)
(***************************************************************************)
Pages == {"stock", "portfolio", "sentiment"}
\* the options of the period select of the stock page
Periods == {"1mo", "3mo", "6mo", "1y", "2y", "5y"}
\* the options of the days select of the sentiment page
DaysOptions == {<<"1">>, <<"3">>, <<"7">>, <<"1", "4">>, <<"3", "0">>}
\* the options of the risk appetite select
RiskOptions == {<<"low">>, <<"medium">>, <<"high">>}
commonStocks ==
  {<<"A","A","P","L">>, <<"M","S","F","T">>, <<"G","O","O","G","L">>,
   <<"A","M","Z","N">>, <<"M","E","T","A">>}

\* attributes of the controls
StockMaxLength == 5
AgeMin == 18
AgeMax == 120
IncomeMin == 0
IncomeStep == 1000
PeriodMin == 1
PeriodMax == 50

Min(a, b) == IF a < b THEN a ELSE b

\* what one input event can leave in the symbol box of the stock page (the
\* browser lets the user enter at most maxLength characters) and of the
\* sentiment page
StockTyped == StringsUpTo(SymbolChars, Min(MaxSymLen, StockMaxLength))
SentimentTyped == StringsUpTo(SymbolChars, MaxSymLen)

\* the values an input event can leave in a control of the portfolio form:
\* the typed text as the browser sanitizes it, or an option of the select
AgeValues == {SanitizeNumber(t) : t \in StringsUpTo(AgeChars, MaxAgeLen)}
IncomeValues == {SanitizeNumber(t) : t \in StringsUpTo(IncomeChars, MaxIncomeLen)}
PeriodValues == {SanitizeNumber(t) : t \in StringsUpTo(PeriodChars, MaxPeriodLen)}
ControlValues(name) ==
  CASE name = "age" -> AgeValues
    [] name = "income" -> IncomeValues
    [] name = "investment_period" -> PeriodValues
    [] name = "risk_appetite" -> RiskOptions

\* constraint validation of a required type="number" control with a min, an
\* optional max (hasMax) and a step whose base is min
NumberControlValid(value, min, hasMax, max, step) ==
  /\ value # << >>
  /\ NumberValue(value) # NaN
  /\ LET n == NumberValue(value)[1]
     IN /\ n >= min
        /\ hasMax => n <= max
        /\ (n - min) % step = 0

\* variant: the symbol box without its pattern attribute
SymbolControlValid_NoPattern(value) == value # << >>

\* constraint validation of a required text control with pattern [A-Za-z]+
SymbolControlValid(value) == value # << >> /\ PatternLetters(value)

(***************************************************************************)
(* State.                                                                  *)
(***************************************************************************)
VARIABLES
  page,            \* the page this document shows
  symbol,          \* useState(''): stock and sentiment pages
  period,          \* useState('1y'): stock page
  days,            \* useState('7'): sentiment page
  formData,        \* useState({age, income, risk_appetite, investment_period})
  loading,         \* useState(false)
  analysis,        \* useState(null): stock and sentiment pages
  recommendation,  \* useState(null): portfolio page
  error,           \* useState('')
  calls,           \* the handler invocations suspended at an await
  sent,            \* the request the last step handed to fetch, or NoReq
  reported         \* the control whose validation message the browser shows

vars == <<page, symbol, period, days, formData, loading, analysis,
          recommendation, error, calls, sent, reported>>
form == <<symbol, period, days, formData>>
outcome == <<loading, analysis, recommendation, error>>

\* A suspended invocation: where it waits (pc) and the variables of its
\* closure that the statements after the await still read.
Call(pc, cleanSymbol, per, sym, d, ok) ==
  [pc |-> pc, cleanSymbol |-> cleanSymbol, period |-> per, symbol |-> sym,
   days |-> d, ok |-> ok]

Remove(seq, i) == SubSeq(seq, 1, i - 1) \o SubSeq(seq, i + 1, Len(seq))

\* the result state of the page
Result == IF page = "portfolio" THEN recommendation ELSE analysis

Init ==
  /\ page \in Pages
  /\ symbol = << >>
  /\ period = "1y"
  /\ days = <<"7">>
  /\ formData = [age |-> << >>, income |-> << >>, risk_appetite |-> <<"medium">>,
                 investment_period |-> << >>]
  /\ loading = FALSE
  /\ analysis = Null
  /\ recommendation = Null
  /\ error = << >>
  /\ calls = << >>
  /\ sent = NoReq
  /\ reported = "none"

(***************************************************************************)
(* Editing the forms.                                                      *)
(***************************************************************************)
\* onChange of the symbol box: setSymbol(e.target.value.toUpperCase())
ChangeSymbol(value) ==
  /\ \/ page = "stock" /\ value \in StockTyped
     \/ page = "sentiment" /\ value \in SentimentTyped
  /\ symbol' = ToUpperCase(value)
  /\ sent' = NoReq
  /\ reported' = "none"
  /\ UNCHANGED <<page, period, days, formData, outcome, calls>>

\* a quick-pick button of the stock page: setSymbol(stock.symbol)
PickCommonStock(s) ==
  /\ page = "stock"
  /\ s \in commonStocks
  /\ symbol' = s
  /\ sent' = NoReq
  /\ reported' = "none"
  /\ UNCHANGED <<page, period, days, formData, outcome, calls>>

\* onChange of the period select
ChangePeriod(p) ==
  /\ page = "stock"
  /\ p \in Periods
  /\ period' = p
  /\ sent' = NoReq
  /\ reported' = "none"
  /\ UNCHANGED <<page, symbol, days, formData, outcome, calls>>

\* onChange of the days select
ChangeDays(d) ==
  /\ page = "sentiment"
  /\ d \in DaysOptions
  /\ days' = d
  /\ sent' = NoReq
  /\ reported' = "none"
  /\ UNCHANGED <<page, symbol, period, formData, outcome, calls>>

\* handleInputChange: setFormData(prev => ({...prev, [name]: value})), where
\* value is the control's value after the browser has sanitized the text
handleInputChange(name, value) ==
  /\ page = "portfolio"
  /\ value \in ControlValues(name)
  /\ formData' = [formData EXCEPT ![name] = value]
  /\ sent' = NoReq
  /\ reported' = "none"
  /\ UNCHANGED <<page, symbol, period, days, outcome, calls>>

(***************************************************************************)
(* Submitting.                                                             *)
(***************************************************************************)
\* variant: the submit button without disabled={loading}
SubmitDisabled_Never == FALSE

\* disabled={loading} on the submit button
SubmitDisabled == loading

\* The first control of the form that fails constraint validation, "none"
\* when the form is valid.  A form that is not valid is not submitted: the
\* browser shows the control's message and fires no submit event.
FirstInvalid ==
  CASE page = "stock" ->
         IF SymbolControlValid(symbol) THEN "none" ELSE "symbol"
    [] page = "sentiment" ->
         IF SymbolControlValid(symbol) THEN "none" ELSE "symbol"
    [] page = "portfolio" ->
         IF ~NumberControlValid(formData.age, AgeMin, TRUE, AgeMax, 1)
         THEN "age"
         ELSE IF ~NumberControlValid(formData.income, IncomeMin, FALSE, 0, IncomeStep)
         THEN "income"
         ELSE IF ~NumberControlValid(formData.investment_period, PeriodMin, TRUE, PeriodMax, 1)
         THEN "investment_period"
         ELSE "none"

\* variant: the stock page starting a submission without setAnalysis(null)
StockHandleAnalyze_KeepsAnalysis ==
  LET cleanSymbol == ToUpperCase(Trim(symbol)) IN
  IF symbol = << >>
  THEN /\ error' = MsgEnterSymbol
       /\ sent' = NoReq
       /\ UNCHANGED <<loading, analysis, recommendation, calls>>
  ELSE IF ~SymbolRegex(cleanSymbol)
  THEN /\ error' = MsgInvalidSymbol
       /\ sent' = NoReq
       /\ UNCHANGED <<loading, analysis, recommendation, calls>>
  ELSE /\ loading' = TRUE
       /\ error' = << >>
       /\ calls' = Append(calls, Call("health", cleanSymbol, period, << >>, << >>, FALSE))
       /\ sent' = HealthReq
       /\ UNCHANGED <<analysis, recommendation>>

\* stock page, handleAnalyze up to its first await
StockHandleAnalyze ==
  LET cleanSymbol == ToUpperCase(Trim(symbol)) IN
  IF symbol = << >>
  THEN /\ error' = MsgEnterSymbol
       /\ sent' = NoReq
       /\ UNCHANGED <<loading, analysis, recommendation, calls>>
  ELSE IF ~SymbolRegex(cleanSymbol)
  THEN /\ error' = MsgInvalidSymbol
       /\ sent' = NoReq
       /\ UNCHANGED <<loading, analysis, recommendation, calls>>
  ELSE /\ loading' = TRUE
       /\ error' = << >>
       /\ analysis' = Null
       /\ calls' = Append(calls, Call("health", cleanSymbol, period, << >>, << >>, FALSE))
       /\ sent' = HealthReq
       /\ UNCHANGED recommendation

\* variant: the sentiment page issuing its POST at once, with no health probe
SentimentHandleAnalyze_NoProbe ==
  IF symbol = << >>
  THEN /\ error' = MsgEnterSymbol
       /\ sent' = NoReq
       /\ UNCHANGED <<loading, analysis, recommendation, calls>>
  ELSE /\ loading' = TRUE
       /\ error' = << >>
       /\ analysis' = Null
       /\ calls' = Append(calls, Call("post", << >>, "", << >>, << >>, FALSE))
       /\ sent' = SentimentReq(symbol, days)
       /\ UNCHANGED recommendation

\* sentiment page, handleAnalyze up to its first await
SentimentHandleAnalyze ==
  IF symbol = << >>
  THEN /\ error' = MsgEnterSymbol
       /\ sent' = NoReq
       /\ UNCHANGED <<loading, analysis, recommendation, calls>>
  ELSE /\ loading' = TRUE
       /\ error' = << >>
       /\ analysis' = Null
       /\ calls' = Append(calls, Call("health", << >>, "", symbol, days, FALSE))
       /\ sent' = HealthReq
       /\ UNCHANGED recommendation

\* portfolio page, handleSubmit up to its first await
handleSubmit ==
  /\ loading' = TRUE
  /\ error' = << >>
  /\ recommendation' = Null
  /\ calls' = Append(calls, Call("post", << >>, "", << >>, << >>, FALSE))
  /\ sent' = PortfolioReq(formData)
  /\ UNCHANGED analysis

\* The user presses the submit button (or Enter in a box of the form).
SubmitForm ==
  /\ ~SubmitDisabled
  /\ Len(calls) < MaxCalls
  /\ IF FirstInvalid # "none"
     THEN /\ reported' = FirstInvalid
          /\ sent' = NoReq
          /\ UNCHANGED <<outcome, calls>>
     ELSE /\ reported' = "none"
          /\ CASE page = "stock" -> StockHandleAnalyze
               [] page = "sentiment" -> SentimentHandleAnalyze
               [] page = "portfolio" -> handleSubmit
  /\ UNCHANGED <<page, form>>

\* variant: Try Again that also empties the symbol box
handleRetry_ClearsSymbol ==
  /\ page \in {"stock", "sentiment"}
  /\ error # << >>
  /\ error' = << >>
  /\ analysis' = Null
  /\ symbol' = << >>
  /\ sent' = NoReq
  /\ reported' = "none"
  /\ UNCHANGED <<page, period, days, formData, loading, recommendation, calls>>

\* variant: Try Again that submits the form again by itself
handleRetry_Resubmits ==
  /\ page \in {"stock", "sentiment"}
  /\ error # << >>
  /\ Len(calls) < MaxCalls
  /\ error' = << >>
  /\ analysis' = Null
  /\ loading' = TRUE
  /\ calls' = Append(calls, Call("health", ToUpperCase(Trim(symbol)), period,
                                 symbol, days, FALSE))
  /\ sent' = HealthReq
  /\ reported' = "none"
  /\ UNCHANGED <<page, form, recommendation>>

\* handleRetry, the Try Again button, which is rendered while error is not ''
handleRetry ==
  /\ page \in {"stock", "sentiment"}
  /\ error # << >>
  /\ error' = << >>
  /\ analysis' = Null
  /\ sent' = NoReq
  /\ reported' = "none"
  /\ UNCHANGED <<page, form, loading, recommendation, calls>>

(***************************************************************************)
(* The rest of the handlers: what runs when an awaited promise settles.    *)
(***************************************************************************)
\* catch block of the stock page
StockCatch(err) ==
  LET errorMessage == IF err.isError THEN err.message ELSE MsgStockGeneric
  IN IF Includes(errorMessage, FailedToFetch) THEN MsgUnable ELSE errorMessage

\* catch block of the sentiment page
SentimentCatch(err) ==
  LET errorMessage == IF err.isError THEN err.message ELSE MsgSentimentGeneric
  IN IF Includes(errorMessage, FailedToFetch) THEN MsgUnable ELSE errorMessage

\* catch block of the portfolio page
PortfolioCatch(err) ==
  IF err.isError THEN err.message ELSE MsgPortfolioGeneric

Catch(err) ==
  CASE page = "stock" -> StockCatch(err)
    [] page = "sentiment" -> SentimentCatch(err)
    [] page = "portfolio" -> PortfolioCatch(err)

\* variant: the catch block without the finally that resets loading
Throw_NoFinally(i, err) ==
  /\ error' = Catch(err)
  /\ calls' = Remove(calls, i)
  /\ sent' = NoReq
  /\ UNCHANGED <<loading, analysis, recommendation>>

\* invocation i ends in its catch block, then finally: setLoading(false)
Throw(i, err) ==
  /\ error' = Catch(err)
  /\ loading' = FALSE
  /\ calls' = Remove(calls, i)
  /\ sent' = NoReq
  /\ UNCHANGED <<analysis, recommendation>>

\* invocation i stores the response data, then finally: setLoading(false)
Return(i, data) ==
  /\ IF page = "portfolio"
     THEN recommendation' = data /\ UNCHANGED analysis
     ELSE analysis' = data /\ UNCHANGED recommendation
  /\ loading' = FALSE
  /\ calls' = Remove(calls, i)
  /\ sent' = NoReq
  /\ UNCHANGED error

\* the POST that follows the health probe
PostAfterHealth(c) ==
  IF page = "stock" THEN StockReq(c.cleanSymbol, c.period)
  ELSE SentimentReq(c.symbol, c.days)

\* variant: the handler without its check of the probe's result
HealthSettle_IgnoresFailure(i, responded) ==
  /\ i \in 1..Len(calls)
  /\ calls[i].pc = "health"
  /\ calls' = [calls EXCEPT
                 ![i] = Call("post", calls[i].cleanSymbol, "", << >>, << >>, FALSE)]
  /\ sent' = PostAfterHealth(calls[i])
  /\ UNCHANGED <<page, form, outcome, reported>>

\* The GET /health of invocation i settles: with a response of any status
\* (responded), or with a rejection that .catch(() => null) turns into null.
HealthSettle(i, responded) ==
  /\ i \in 1..Len(calls)
  /\ calls[i].pc = "health"
  /\ IF responded
     THEN /\ calls' = [calls EXCEPT
                         ![i] = Call("post", calls[i].cleanSymbol, "", << >>, << >>, FALSE)]
          /\ sent' = PostAfterHealth(calls[i])
          /\ UNCHANGED outcome
     ELSE Throw(i, Error(MsgNotRunning))
  /\ UNCHANGED <<page, form, reported>>

\* the POST of invocation i is rejected: no response arrived
PostReject(i, err) ==
  /\ i \in 1..Len(calls)
  /\ calls[i].pc = "post"
  /\ err \in FetchRejections
  /\ Throw(i, err)
  /\ UNCHANGED <<page, form, reported>>

\* the POST of invocation i is answered; ok is response.ok
PostRespond(i, ok) ==
  /\ i \in 1..Len(calls)
  /\ calls[i].pc = "post"
  /\ calls' = [calls EXCEPT ![i].pc = "json", ![i].ok = ok]
  /\ sent' = NoReq
  /\ UNCHANGED <<page, form, outcome, reported>>

\* variant: the stock page throwing its fixed message whatever the detail
StockThrown_IgnoresDetail(c, body) ==
  IF body = NotJson THEN [isError |-> TRUE, message |-> <<"Unexpected token '<' is not valid JSON">>]
  ELSE IF c.ok THEN [isError |-> FALSE, message |-> << >>]
  ELSE [isError |-> TRUE, message |-> MsgStockFailed]

\* variant: the stock page without its special case for 'No data found for
\* symbol'
StockThrown_NoSpecialCase(c, body) ==
  IF body = NotJson THEN [isError |-> TRUE, message |-> <<"Unexpected token '<' is not valid JSON">>]
  ELSE IF c.ok THEN [isError |-> FALSE, message |-> << >>]
  ELSE IF body = Null
  THEN [isError |-> TRUE, message |-> <<"Cannot read properties of null (reading 'detail')">>]
  ELSE [isError |-> TRUE,
        message |-> IF Truthy(body.detail) THEN body.detail.s ELSE MsgStockFailed]

\* What the stock page throws once response.json() has settled with body,
\* or NoError: the body is read before response.ok is looked at.
NoError == [isError |-> FALSE, message |-> << >>]
StockThrown(c, body) ==
  IF body = NotJson THEN SyntaxError
  ELSE IF c.ok THEN NoError
  ELSE IF body = Null THEN TypeErrorNull
  ELSE IF body.detail.t = "string" /\ Includes(body.detail.s, NoDataFound)
  THEN Error(MsgNoData(c.cleanSymbol))
  ELSE Error(IF Truthy(body.detail) THEN body.detail.s ELSE MsgStockFailed)

\* the same for the sentiment page
SentimentThrown(c, body) ==
  IF body = NotJson THEN SyntaxError
  ELSE IF c.ok THEN NoError
  ELSE IF body = Null THEN TypeErrorNull
  ELSE Error(IF Truthy(body.detail) THEN body.detail.s ELSE MsgSentimentFailed)

\* the same for the portfolio page
PortfolioThrown(c, body) ==
  IF body = NotJson THEN SyntaxError
  ELSE IF c.ok THEN NoError
  ELSE IF body = Null THEN TypeErrorNull
  ELSE Error(IF Truthy(body.detail) THEN body.detail.s ELSE MsgPortfolioFailed)

Thrown(c, body) ==
  CASE page = "stock" -> StockThrown(c, body)
    [] page = "sentiment" -> SentimentThrown(c, body)
    [] page = "portfolio" -> PortfolioThrown(c, body)

\* response.json() of invocation i settles
JsonSettle(i, body) ==
  /\ i \in 1..Len(calls)
  /\ calls[i].pc = "json"
  /\ body \in (IF calls[i].ok THEN OkBodies ELSE ErrorBodies)
  /\ IF Thrown(calls[i], body) = NoError
     THEN Return(i, body)
     ELSE Throw(i, Thrown(calls[i], body))
  /\ UNCHANGED <<page, form, reported>>

\* The error panel of the stock and sentiment pages, rendered while error
\* is not '', shows the hint with the command that starts the backend when
\* error.includes('backend server'); the search is case-sensitive.
HintShown ==
  /\ page \in {"stock", "sentiment"}
  /\ error # << >>
  /\ Includes(error, BackendServerLower)

(***************************************************************************)
(* Specifications.                                                         *)
(***************************************************************************)
UserStep ==
  \/ \E value \in SentimentTyped : ChangeSymbol(value)
  \/ \E s \in commonStocks : PickCommonStock(s)
  \/ \E p \in Periods : ChangePeriod(p)
  \/ \E d \in DaysOptions : ChangeDays(d)
  \/ \E name \in {"age", "income", "investment_period", "risk_appetite"} :
       \E value \in ControlValues(name) : handleInputChange(name, value)
  \/ SubmitForm
  \/ handleRetry

NetworkStep ==
  \/ \E i \in 1..MaxCalls : \E responded \in BOOLEAN : HealthSettle(i, responded)
  \/ \E i \in 1..MaxCalls : \E err \in FetchRejections : PostReject(i, err)
  \/ \E i \in 1..MaxCalls : \E ok \in BOOLEAN : PostRespond(i, ok)
  \/ \E i \in 1..MaxCalls : \E body \in OkBodies \cup ErrorBodies : JsonSettle(i, body)

Next == UserStep \/ NetworkStep

Spec == Init /\ [][Next]_vars

\* every fetch and every read of a response body settles
FairSpec == Spec /\ WF_vars(NetworkStep)

(***************************************************************************)
(* Properties.                                                             *)
(***************************************************************************)
\* a ticker: 1 to 5 letters A-Z
IsTicker(s) == Len(s) \in 1..5 /\ \A i \in 1..Len(s) : s[i] \in AZ
\* the text holds a character that is no letter
HasNonLetter(s) == \E i \in 1..Len(s) : s[i] \notin AZ \cup az
\* the step starts no invocation and hands nothing to fetch
NothingStarted == sent' = NoReq /\ calls' = calls /\ loading' = FALSE

\* C1: on the stock page, submitting a symbol that after trimming and
\* uppercasing is not 1 to 5 letters A-Z is rejected with a validation
\* message (the page's error or the browser's message on the symbol box), no
\* request is handed to fetch and loading does not become true.
C1_InvalidSymbolRejected ==
  [][(page = "stock" /\ SubmitForm /\ ~IsTicker(ToUpperCase(Trim(symbol))))
       => /\ NothingStarted
          /\ \/ error' \in {MsgEnterSymbol, MsgInvalidSymbol}
             \/ reported' = "symbol"]_vars

\* C1 witness: the handler has rejected a symbol of more than 5 letters
C1_Witness ==
  /\ page = "stock"
  /\ Len(symbol) > 5
  /\ error = MsgInvalidSymbol
  /\ sent = NoReq
  /\ calls = << >>
  /\ ~loading

\* C2 as claimed: every POST /portfolio/recommend carries an age of 18 to
\* 120, an investment period of 1 to 50 and an income that is a number not
\* below 0.
C2_PortfolioRequestInRange ==
  sent.path = "/portfolio/recommend"
    => /\ sent.age # NaN /\ sent.age[1] \in 18..120
       /\ sent.investment_period # NaN /\ sent.investment_period[1] \in 1..50
       /\ sent.income # NaN /\ sent.income[1] >= 0

\* C3: on the sentiment page, submitting a symbol that is empty or holds a
\* character that is no letter is rejected with a message (the page's error
\* or the browser's message on the symbol box) and no request is handed to
\* fetch.
C3_SentimentSymbolRejected ==
  [][(page = "sentiment" /\ SubmitForm /\ (symbol = << >> \/ HasNonLetter(symbol)))
       => /\ NothingStarted
          /\ error' = MsgEnterSymbol \/ reported' = "symbol"]_vars

\* C3 witness: the browser has refused a submission whose symbol holds a digit
C3_Witness ==
  /\ page = "sentiment"
  /\ HasNonLetter(symbol)
  /\ reported = "symbol"
  /\ sent = NoReq
  /\ calls = << >>

\* the response body of a failed POST carries a non-empty detail string
HasDetailString(body) ==
  body.t = "object" /\ body.detail.t = "string" /\ body.detail.s # << >>

C5_HealthFailureEndsInError ==
  [][\A i \in 1..MaxCalls :
       HealthSettle(i, FALSE)
         => /\ error' = MsgNotRunning
            /\ sent' = NoReq
            /\ calls' = << >>
            /\ analysis' = Null
            /\ loading' = FALSE]_vars

\* C5 witness: a submission has ended on the failed health probe
C5_Witness ==
  /\ page \in {"stock", "sentiment"}
  /\ error = MsgNotRunning
  /\ analysis = Null
  /\ calls = << >>
  /\ ~loading

\* C6: at most one submission is in flight, loading is true as long as one
\* is, and no step taken while loading is true starts another.
C6_OneSubmissionInFlight ==
  /\ [](Len(calls) <= 1 /\ (calls # << >> => loading))
  /\ [][loading => Len(calls') <= Len(calls)]_vars

\* C6 witness: a submission whose last request is settling, loading still on
C6_Witness ==
  /\ loading
  /\ Len(calls) = 1
  /\ calls[1].pc = "json"

\* C7: a request is handed to fetch only by a submission of the form or as
\* the POST that follows that submission's answered health probe; a step
\* that leaves an error on display leaves no invocation behind; and Try
\* Again issues no request.
C7_NoAutomaticRetry ==
  [][/\ sent' # NoReq => SubmitForm \/ \E i \in 1..MaxCalls : HealthSettle(i, TRUE)
     /\ error' # << >> => calls' = << >> /\ sent' = NoReq
     /\ handleRetry => calls' = calls /\ sent' = NoReq]_vars

\* C7 witness: a submission has ended in an error and nothing is in flight
C7_Witness ==
  /\ error = MsgUnable
  /\ calls = << >>
  /\ sent = NoReq
  /\ ~loading

\* C8 as claimed: a non-empty error and a non-null result are never held at
\* the same time.
C8_ErrorAndResultExclusive == ~(error # << >> /\ Result # Null)

\* C9: every POST /analyze/stock carries a symbol of 1 to 5 letters A-Z and
\* one of the six preset periods.
C9_StockRequestWellFormed ==
  sent.path = "/analyze/stock"
    => /\ IsTicker(sent.symbol)
       /\ sent.period \in {"1mo", "3mo", "6mo", "1y", "2y", "5y"}

\* C9 witness: a POST for a typed symbol, after the period was changed
C9_Witness ==
  /\ sent.path = "/analyze/stock"
  /\ sent.symbol = <<"S", "S">>
  /\ sent.period = "5y"

ProbeStarted ==
  \E i \in 1..Len(calls') :
     /\ calls'[i].pc = "health"
     /\ i > Len(calls) \/ calls[i].pc # "health"

\* C11: on the stock and sentiment pages an analysis POST is handed to fetch
\* only by the step in which the health probe of the same invocation is
\* answered, and that probe was issued as GET /health by the submission; an
\* answered probe (of whatever status) is always followed by the page's
\* POST, a probe with no response by no request.  The portfolio page hands
\* its POST to fetch in the submission itself and never issues GET /health.
C11_ProbeBeforePost ==
  [][/\ sent'.path \in {"/analyze/stock", "/analyze/sentiment"}
          => \E i \in 1..MaxCalls :
               /\ HealthSettle(i, TRUE)
               /\ calls[i].pc = "health" /\ calls'[i].pc = "post"
     /\ ProbeStarted => SubmitForm /\ sent' = HealthReq
     /\ \A i \in 1..MaxCalls :
          HealthSettle(i, TRUE)
            => /\ sent'.method = "POST"
               /\ sent'.path = (IF page = "stock" THEN "/analyze/stock"
                                 ELSE "/analyze/sentiment")
     /\ \A i \in 1..MaxCalls : HealthSettle(i, FALSE) => sent' = NoReq
     /\ sent'.path = "/portfolio/recommend"
          => page = "portfolio" /\ SubmitForm /\ calls = << >>
     /\ page = "portfolio" => sent' # HealthReq]_vars

\* C11 witness: the sentiment page has issued its POST after the answered
\* probe, and the invocation now waits for that POST
C11_Witness ==
  /\ page = "sentiment"
  /\ sent.path = "/analyze/sentiment"
  /\ Len(calls) = 1
  /\ calls[1].pc = "post"
  /\ loading

\* the body of a failed POST whose detail is a string that contains the
\* text 'No data found for symbol'
HasNoDataDetail(body) ==
  /\ body.t = "object"
  /\ body.detail.t = "string"
  /\ Includes(body.detail.s, NoDataFound)

\* C12: when a POST is answered with a status that is not 2xx and a detail
\* that contains 'No data found for symbol', the stock page shows the
\* special message naming the symbol that was submitted, not the detail;
\* the sentiment and portfolio pages show the detail itself.
C12_NoDataSpecialCase ==
  [][\A i \in 1..MaxCalls : \A body \in ErrorBodies :
       (JsonSettle(i, body) /\ ~calls[i].ok /\ HasNoDataDetail(body))
         => IF page = "stock"
            THEN /\ error' = NoDataFound \o <<" \"">> \o calls[i].cleanSymbol
                              \o <<"\". Please verify the stock symbol is correct.">>
                 /\ error' # body.detail.s
                 /\ IsTicker(calls[i].cleanSymbol)
            ELSE error' = body.detail.s]_vars

\* C12 witness: the stock page shows the special message for the submitted
\* symbol "SS" while the symbol box already holds another text
C12_Witness ==
  /\ page = "stock"
  /\ error = MsgNoData(<<"S", "S">>)
  /\ symbol # <<"S", "S">>
  /\ ~loading
  /\ analysis = Null

\* the body of a failed POST carries no usable detail: it is no JSON, it is
\* null, or it is an object whose detail is absent or ''
NoUsableDetail(body) == ~(body.t = "object" /\ Truthy(body.detail))

\* the fixed fallback message of the page
Fallback ==
  CASE page = "stock" -> MsgStockFailed
    [] page = "sentiment" -> MsgSentimentFailed
    [] page = "portfolio" -> MsgPortfolioFailed

\* C13 as claimed: when a POST is answered with a status that is not 2xx
\* and the response carries no usable detail, the error shown is the fixed
\* fallback message of the page.
C13_FallbackShown ==
  [][\A i \in 1..MaxCalls : \A body \in ErrorBodies :
       (JsonSettle(i, body) /\ ~calls[i].ok /\ NoUsableDetail(body))
         => error' = Fallback]_vars

\* C14 as claimed: on the stock and sentiment pages, whenever the error on
\* display reports that the backend is unreachable (the message of the
\* failed health probe, or the message that replaces 'Failed to fetch'), the
\* hint with the command to start the backend is displayed with it.
C14_HintWithUnreachable ==
  (page \in {"stock", "sentiment"} /\ error \in {MsgNotRunning, MsgUnable})
    => HintShown

\* C15: on every page, while loading is true the error is '' and the result
\* is null: no stale error and no stale result is on display while a
\* request is in flight.
C15_LoadingShowsNothingStale == loading => (error = << >> /\ Result = Null)

\* C15 witness: the stock page waits for its health probe with the error
\* and the result cleared
C15_Witness ==
  /\ page = "stock"
  /\ loading
  /\ Len(calls) = 1
  /\ calls[1].pc = "health"
  /\ error = << >>
  /\ analysis = Null

\* the page is idle: nothing is loading or in flight, no error and no
\* result is on display
Idle == ~loading /\ calls = << >> /\ error = << >> /\ Result = Null

\* C16: on the stock and sentiment pages Try Again acts only while an error
\* is on display; it sets the error to '' and the result to null, leaves
\* the symbol, the period, the days and loading as they are, and leaves the
\* page idle.  It is the only step that takes an error off the display
\* without starting a submission.
C16_RetryResetsToIdle ==
  [][/\ handleRetry
          => /\ page \in {"stock", "sentiment"}
             /\ error # << >>
             /\ error' = << >> /\ analysis' = Null
             /\ symbol' = symbol /\ period' = period /\ days' = days
             /\ loading' = loading
             /\ Idle'
     /\ (error # << >> /\ error' = << >> /\ ~loading')
          => /\ page \in {"stock", "sentiment"}
             /\ form' = form
             /\ Idle']_vars

\* C16 witness: the stock page is idle with the picked symbol and the
\* chosen period still in the form, as Try Again leaves it after a failed
\* submission
C16_Witness ==
  /\ page = "stock"
  /\ Idle
  /\ symbol = <<"M", "S", "F", "T">>
  /\ period = "6mo"
  /\ sent = NoReq
  /\ reported = "none"

====
